---- MODULE Spec2Model ----
(***************************************************************************)
(* live-mood backend: the model list builder (_parse_model_list), the      *)
(* retry orchestration of _generate_affirmation and the POST               *)
(* /api/affirmation handler (generate_affirmation) in backend/main.py.     *)
(*                                                                         *)
(* Strings are sequences of one-character strings.  The absent value of    *)
(* Python (None) is the one-element sequence <<"None">>, which is no       *)
(* sequence of characters.                                                 *)
(***************************************************************************)
EXTENDS Integers, Sequences, FiniteSets, TLC

VARIABLES
    env_api_key,     \* os.environ["HUGGING_FACE_API_KEY"] (None when unset)
    env_model,       \* os.environ["HUGGING_FACE_MODEL"]
    env_fallback,    \* os.environ["HUGGING_FACE_FALLBACK_MODELS"]
    name,            \* data.name of the request (None when no request is modelled)
    feeling,         \* data.feeling of the request
    http_status,     \* status of the HTTP response of the handler, 0 before it
    affirmation,     \* the "affirmation" of the 200 response
    pc,              \* position of the invocation: "request" (handler entered),
                     \* "rejected" (raise, line 73), "start", "post", "sleep", or how
                     \* _generate_affirmation ended: "returned" (line 197), "no_key"
                     \* (raise, line 138), "aborted" (raise, line 206), "exhausted"
                     \* (raise, line 230)
    primary_model,   \* local primary_model / parameter primary
    fallback_raw,    \* local fallback_raw / parameter fallback_raw
    models_to_try,   \* local models_to_try
    model_idx,       \* position of `for model in models_to_try` (1-based)
    attempt,         \* position of `for attempt in range(3)`
    last_error,      \* local last_error
    wait_time,       \* local wait_time
    result,          \* the value returned by _generate_affirmation
    raised,          \* the exception _generate_affirmation ends with
    calls,           \* history: <<model index, attempt>> of every requests.post
    waits,           \* history: <<model index, seconds>> of every time.sleep
    last_outcome     \* history: what the most recent requests.post produced

vars == <<env_api_key, env_model, env_fallback, name, feeling, http_status,
          affirmation, pc, primary_model, fallback_raw, models_to_try, model_idx,
          attempt, last_error, wait_time, result, raised, calls, waits,
          last_outcome>>

\* the request and the response of the handler
handler_vars == <<name, feeling, http_status, affirmation>>

-----------------------------------------------------------------------------
(* Bounds of the model *)

MaxEnvLen == 2
MaxPrimaryLen == 1
MaxFallbackLen == 5

-----------------------------------------------------------------------------
(* Strings *)

None == <<"None">>

Chars == {"a", "b", " ", ","}

StringsUpTo(n) == UNION {[1..k -> Chars] : k \in 0..n}

IsSpace(c) == c = " "

\* bool(x) of an optional string: None and "" are falsy
Truthy(s) == s # None /\ Len(s) > 0

RECURSIVE lstrip(_)
lstrip(s) ==
    IF Len(s) > 0 /\ IsSpace(Head(s)) THEN lstrip(Tail(s)) ELSE s

RECURSIVE rstrip(_)
rstrip(s) ==
    IF Len(s) > 0 /\ IsSpace(s[Len(s)]) THEN rstrip(SubSeq(s, 1, Len(s) - 1)) ELSE s

\* str.strip()
strip(s) == rstrip(lstrip(s))

\* str.split(","): k commas give k+1 pieces, empty pieces included
RECURSIVE split(_)
split(s) ==
    IF \A i \in 1..Len(s) : s[i] # ","
    THEN <<s>>
    ELSE LET k == CHOOSE i \in 1..Len(s) :
                      s[i] = "," /\ \A j \in 1..(i - 1) : s[j] # ","
         IN  <<SubSeq(s, 1, k - 1)>> \o split(SubSeq(s, k + 1, Len(s)))

\* os.getenv(name, default)
getenv(value, default) == IF value = None THEN default ELSE value

DefaultModel ==
    <<"m", "e", "t", "a", "-", "l", "l", "a", "m", "a", "/", "M", "e", "t", "a",
      "-", "L", "l", "a", "m", "a", "-", "3", "-", "8", "B", "-", "I", "n", "s",
      "t", "r", "u", "c", "t">>

DefaultFallbackModels ==
    <<"Q", "w", "e", "n", "/", "Q", "w", "e", "n", "2", ".", "5", "-", "7", "B",
      "-", "I", "n", "s", "t", "r", "u", "c", "t">>

\* a HUGGING_FACE_FALLBACK_MODELS that repeats the primary model: "b,a, b"
ExampleFallback == <<"b", ",", "a", ",", " ", "b">>

-----------------------------------------------------------------------------
(* _parse_model_list *)

\* StrippedEntries without `if model.strip()`: empty entries are kept
RECURSIVE StrippedEntriesKeepsEmpty(_)
StrippedEntriesKeepsEmpty(pieces) ==
    IF pieces = <<>> THEN <<>>
    ELSE <<strip(Head(pieces))>> \o StrippedEntriesKeepsEmpty(Tail(pieces))

\* (model.strip() for model in fallback_raw.split(",") if model.strip())
RECURSIVE StrippedEntries(_)
StrippedEntries(pieces) ==
    IF pieces = <<>> THEN <<>>
    ELSE (IF Len(strip(Head(pieces))) > 0 THEN <<strip(Head(pieces))>> ELSE <<>>)
         \o StrippedEntries(Tail(pieces))

\* RemoveDuplicates without `seen.add(model)`
RECURSIVE RemoveDuplicatesForgetsSeen(_, _, _)
RemoveDuplicatesForgetsSeen(models, seen, ordered) ==
    IF models = <<>> THEN ordered
    ELSE IF Head(models) \notin seen
         THEN RemoveDuplicatesForgetsSeen(Tail(models), seen,
                                          Append(ordered, Head(models)))
         ELSE RemoveDuplicatesForgetsSeen(Tail(models), seen, ordered)

\* for model in models: if model not in seen: ordered.append(model); seen.add(model)
RECURSIVE RemoveDuplicates(_, _, _)
RemoveDuplicates(models, seen, ordered) ==
    IF models = <<>> THEN ordered
    ELSE IF Head(models) \notin seen
         THEN RemoveDuplicates(Tail(models), seen \cup {Head(models)},
                               Append(ordered, Head(models)))
         ELSE RemoveDuplicates(Tail(models), seen, ordered)

\* _parse_model_list with `models = []`: the primary is left out
ParseModelListWithoutPrimary(primary, fallback) ==
    LET models == IF Truthy(fallback)
                  THEN StrippedEntries(split(fallback))
                  ELSE <<>>
    IN  RemoveDuplicates(models, {}, <<>>)

_parse_model_list(primary, fallback) ==
    LET models == IF Truthy(fallback)
                  THEN <<primary>> \o StrippedEntries(split(fallback))
                  ELSE <<primary>>
    IN  RemoveDuplicates(models, {}, <<>>)

-----------------------------------------------------------------------------
(* The upstream endpoint: what one requests.post(..., timeout=60) can produce *)

\* message.content: missing, empty, whitespace only, a text, a text to be trimmed
Contents == {None, <<>>, <<" ">>, <<"a">>, <<" ", "a", "b", " ">>}

\* choices[0]: {"message": {"content": ...}}, the message or its content may be missing
Choices == [has_message : BOOLEAN, content : Contents]

\* the "choices" array: empty, or one choice (a missing message has no content)
ChoiceLists ==
    {<<>>} \cup {<<c>> : c \in {d \in Choices : d.has_message \/ d.content = None}}

\* The response body: not JSON at all, a JSON value that is no object, or an object
\* with an optional "error" and an optional "choices"
DictBodies ==
    {b \in [json : {TRUE}, is_dict : {TRUE}, error : {None, <<>>, <<"a">>},
            has_choices : BOOLEAN, choices : ChoiceLists] :
        b.has_choices \/ b.choices = <<>>}

NotJsonBody ==
    [json |-> FALSE, is_dict |-> FALSE, error |-> None, has_choices |-> FALSE,
     choices |-> <<>>]

ListBody ==
    [json |-> TRUE, is_dict |-> FALSE, error |-> None, has_choices |-> FALSE,
     choices |-> <<>>]

ErrorBody ==
    [json |-> TRUE, is_dict |-> TRUE, error |-> <<"a">>, has_choices |-> FALSE,
     choices |-> <<>>]

OkStatuses == {200}

ErrorStatuses == {400, 401, 403, 404, 410, 429, 500, 503}

\* the outcome of the call that has not been made yet
NoOutcome == [kind |-> "none", status |-> 0, body |-> NotJsonBody]

Outcomes ==
    {[kind |-> k, status |-> 0, body |-> NotJsonBody] : k \in {"timeout", "connection"}}
    \cup [kind : {"response"}, status : ErrorStatuses, body : {ErrorBody}]
    \cup [kind : {"response"}, status : OkStatuses,
          body : DictBodies \cup {NotJsonBody, ListBody}]

-----------------------------------------------------------------------------
(* _generate_affirmation: the body of the try block and the two handlers *)

backoff_delays == <<2, 4, 8>>

NoError == [type |-> "None", status |-> 0, call |-> 0]

\* RuntimeError("AI request failed after all models attempted")
GenericError == [type |-> "RuntimeError", status |-> 0, call |-> 0]

\* ValueError("HUGGING_FACE_API_KEY not set in environment")
MissingKeyError == [type |-> "ValueError", status |-> 0, call |-> 0]

\* response.raise_for_status() raises HTTPError for a 4xx or 5xx status
raise_for_status(resp) == 400 <= resp.status /\ resp.status < 600

\* bool(response) is response.ok: False exactly when raise_for_status() raises
ResponseBool(resp) == ~raise_for_status(resp)

\* status_code = err.response.status_code if err.response else None  (0 is None)
status_code(resp) == IF ResponseBool(resp) THEN resp.status ELSE 0

\* text = ""; if isinstance(result, dict): choices = ...; text = (content or "").strip()
ExtractText(body) ==
    IF ~body.is_dict THEN <<>>
    ELSE IF ~body.has_choices \/ body.choices = <<>> THEN <<>>
    ELSE LET choice == body.choices[1]
         IN  IF ~choice.has_message \/ choice.content = None THEN <<>>
             ELSE strip(choice.content)

\* TryBlock without `if ... result.get("error"): raise RuntimeError(...)`
TryBlockIgnoresErrorField(out) ==
    IF out.kind = "timeout" THEN [returns |-> FALSE, exc |-> "Timeout", text |-> <<>>]
    ELSE IF out.kind = "connection"
    THEN [returns |-> FALSE, exc |-> "ConnectionError", text |-> <<>>]
    ELSE IF raise_for_status(out) THEN [returns |-> FALSE, exc |-> "HTTPError", text |-> <<>>]
    ELSE IF ~out.body.json THEN [returns |-> FALSE, exc |-> "JSONDecodeError", text |-> <<>>]
    ELSE IF ~Truthy(ExtractText(out.body))
    THEN [returns |-> FALSE, exc |-> "ValueError", text |-> <<>>]
    ELSE [returns |-> TRUE, exc |-> "None", text |-> ExtractText(out.body)]

\* TryBlock without `if not text: raise ValueError(...)`
TryBlockReturnsAnyText(out) ==
    IF out.kind = "timeout" THEN [returns |-> FALSE, exc |-> "Timeout", text |-> <<>>]
    ELSE IF out.kind = "connection"
    THEN [returns |-> FALSE, exc |-> "ConnectionError", text |-> <<>>]
    ELSE IF raise_for_status(out) THEN [returns |-> FALSE, exc |-> "HTTPError", text |-> <<>>]
    ELSE IF ~out.body.json THEN [returns |-> FALSE, exc |-> "JSONDecodeError", text |-> <<>>]
    ELSE IF out.body.is_dict /\ Truthy(out.body.error)
    THEN [returns |-> FALSE, exc |-> "RuntimeError", text |-> <<>>]
    ELSE [returns |-> TRUE, exc |-> "None", text |-> ExtractText(out.body)]

\* The try block: the text it returns, or the type of the exception it raises
TryBlock(out) ==
    IF out.kind = "timeout" THEN [returns |-> FALSE, exc |-> "Timeout", text |-> <<>>]
    ELSE IF out.kind = "connection"
    THEN [returns |-> FALSE, exc |-> "ConnectionError", text |-> <<>>]
    ELSE IF raise_for_status(out) THEN [returns |-> FALSE, exc |-> "HTTPError", text |-> <<>>]
    ELSE IF ~out.body.json THEN [returns |-> FALSE, exc |-> "JSONDecodeError", text |-> <<>>]
    ELSE IF out.body.is_dict /\ Truthy(out.body.error)
    THEN [returns |-> FALSE, exc |-> "RuntimeError", text |-> <<>>]
    ELSE IF ~Truthy(ExtractText(out.body))
    THEN [returns |-> FALSE, exc |-> "ValueError", text |-> <<>>]
    ELSE [returns |-> TRUE, exc |-> "None", text |-> ExtractText(out.body)]

\* HTTPErrorHandler that breaks on every status it does not re-raise
HTTPErrorHandlerNeverRetries(resp, k) ==
    IF status_code(resp) \in {401, 403} THEN "raise" ELSE "break"

\* except requests.exceptions.HTTPError: re-raise, break, or sleep and continue
HTTPErrorHandler(resp, k) ==
    IF status_code(resp) \in {401, 403} THEN "raise"
    ELSE IF status_code(resp) \in {404, 410} THEN "break"
    ELSE IF k < 2 THEN "sleep"
    ELSE "break"

\* ExceptionHandler that gives the model up on its first failure
ExceptionHandlerNeverRetries(k) == "break"

\* ExceptionHandler with `if attempt < 3`: it sleeps after the last attempt too
ExceptionHandlerAlwaysSleeps(k) == IF k < 3 THEN "sleep" ELSE "break"

\* except Exception: sleep and continue, or break
ExceptionHandler(k) == IF k < 2 THEN "sleep" ELSE "break"

\* the exception object of the call being made
ErrorOf(out) ==
    [type |-> TryBlock(out).exc,
     status |-> IF out.kind = "response" THEN out.status ELSE 0,
     call |-> Len(calls) + 1]

\* the outcomes by the way the try block ends on them
Returning == {out \in Outcomes : TryBlock(out).returns}

RaisingHTTPError == {out \in Outcomes : TryBlock(out).exc = "HTTPError"}

RaisingOther ==
    {out \in Outcomes : ~TryBlock(out).returns /\ TryBlock(out).exc # "HTTPError"}

-----------------------------------------------------------------------------
(* _generate_affirmation: the state machine *)

Init ==
    /\ env_api_key \in {None, <<>>, <<"k">>}
    /\ env_model \in {None, <<"a">>}
    /\ env_fallback \in {None, ExampleFallback} \cup StringsUpTo(MaxEnvLen)
    /\ name = None
    /\ feeling = None
    /\ http_status = 0
    /\ affirmation = None
    /\ pc = "start"
    /\ primary_model = None
    /\ fallback_raw = None
    /\ models_to_try = <<>>
    /\ model_idx = 0
    /\ attempt = 0
    /\ last_error = NoError
    /\ wait_time = 0
    /\ result = None
    /\ raised = NoError
    /\ calls = <<>>
    /\ waits = <<>>
    /\ last_outcome = NoOutcome

\* The outer for moves on: the next model, or the raise after the loops
NextModel(err) ==
    IF model_idx < Len(models_to_try)
    THEN /\ model_idx' = model_idx + 1
         /\ attempt' = 0
         /\ pc' = "post"
         /\ raised' = raised
    ELSE /\ pc' = "exhausted"
         /\ raised' = (IF err = NoError THEN GenericError ELSE err)
         /\ UNCHANGED <<model_idx, attempt>>

\* Start without `if not api_key: raise ValueError(...)`
StartWithoutKeyCheck ==
    /\ pc = "start"
    /\ primary_model' = getenv(env_model, DefaultModel)
    /\ fallback_raw' = getenv(env_fallback, DefaultFallbackModels)
    /\ models_to_try' = _parse_model_list(primary_model', fallback_raw')
    /\ pc' = "post"
    /\ model_idx' = 1
    /\ attempt' = 0
    /\ UNCHANGED <<env_api_key, env_model, env_fallback, last_error, wait_time,
                   result, raised, calls, waits, last_outcome>>
    /\ UNCHANGED handler_vars

\* The function up to the first requests.post: the key, the candidate list
Start ==
    /\ pc = "start"
    /\ IF ~Truthy(env_api_key)
       THEN /\ pc' = "no_key"
            /\ raised' = MissingKeyError
            /\ UNCHANGED <<primary_model, fallback_raw, models_to_try, model_idx,
                           attempt>>
       ELSE /\ primary_model' = getenv(env_model, DefaultModel)
            /\ fallback_raw' = getenv(env_fallback, DefaultFallbackModels)
            /\ models_to_try' = _parse_model_list(primary_model', fallback_raw')
            /\ IF models_to_try' = <<>>
               THEN /\ pc' = "exhausted"
                    /\ raised' = GenericError
                    /\ UNCHANGED <<model_idx, attempt>>
               ELSE /\ pc' = "post"
                    /\ model_idx' = 1
                    /\ attempt' = 0
                    /\ raised' = raised
    /\ UNCHANGED <<env_api_key, env_model, env_fallback, last_error, wait_time,
                   result, calls, waits, last_outcome>>
    /\ UNCHANGED handler_vars

\* what every requests.post leaves in the history
Posted(out) ==
    /\ calls' = Append(calls, [idx |-> model_idx, attempt |-> attempt])
    /\ last_outcome' = out
    /\ UNCHANGED <<env_api_key, env_model, env_fallback, primary_model,
                   fallback_raw, models_to_try, waits>>
    /\ UNCHANGED handler_vars

\* PostReturns without the `return text`: the for loop goes on to the next attempt
PostReturnsAndGoesOn ==
    /\ pc = "post"
    /\ \E out \in Returning :
          /\ Posted(out)
          /\ result' = TryBlock(out).text
          /\ IF attempt + 1 < 3
             THEN /\ attempt' = attempt + 1
                  /\ pc' = "post"
                  /\ UNCHANGED <<model_idx, raised>>
             ELSE NextModel(last_error)
          /\ UNCHANGED <<last_error, wait_time>>

\* requests.post answers and the try block returns the text
PostReturns ==
    /\ pc = "post"
    /\ \E out \in Returning :
          /\ Posted(out)
          /\ pc' = "returned"
          /\ result' = TryBlock(out).text
          /\ UNCHANGED <<model_idx, attempt, last_error, wait_time, raised>>

\* time.sleep(wait_time) is pending; continue follows it
Backoff(err) ==
    /\ last_error' = err
    /\ wait_time' = backoff_delays[attempt + 1]
    /\ pc' = "sleep"
    /\ UNCHANGED <<model_idx, attempt, result, raised>>

\* Break that keeps the first failure of the run in last_error
BreakKeepsFirstError(err) ==
    /\ last_error' = (IF last_error = NoError THEN err ELSE last_error)
    /\ NextModel(last_error')
    /\ UNCHANGED <<wait_time, result>>

\* break out of the attempts of this model
Break(err) ==
    /\ last_error' = err
    /\ NextModel(err)
    /\ UNCHANGED <<wait_time, result>>

\* raise_for_status() raises: except requests.exceptions.HTTPError
PostHTTPError ==
    /\ pc = "post"
    /\ \E out \in RaisingHTTPError :
          /\ Posted(out)
          /\ CASE HTTPErrorHandler(out, attempt) = "raise" ->
                      /\ last_error' = ErrorOf(out)
                      /\ pc' = "aborted"
                      /\ raised' = ErrorOf(out)
                      /\ UNCHANGED <<model_idx, attempt, wait_time, result>>
               [] HTTPErrorHandler(out, attempt) = "break" -> Break(ErrorOf(out))
               [] OTHER -> Backoff(ErrorOf(out))

\* any other exception of the try block: except Exception
PostException ==
    /\ pc = "post"
    /\ \E out \in RaisingOther :
          /\ Posted(out)
          /\ IF ExceptionHandler(attempt) = "sleep"
             THEN Backoff(ErrorOf(out))
             ELSE Break(ErrorOf(out))

\* Sleep that never returns: the run stays in the wait
SleepNeverWakes ==
    /\ pc = "sleep"
    /\ UNCHANGED vars

\* Sleep after which the same attempt index is tried again
SleepKeepsAttempt ==
    /\ pc = "sleep"
    /\ waits' = Append(waits, [idx |-> model_idx, seconds |-> wait_time])
    /\ pc' = "post"
    /\ UNCHANGED <<env_api_key, env_model, env_fallback, primary_model,
                   fallback_raw, models_to_try, model_idx, attempt, raised,
                   last_error, wait_time, result, calls, last_outcome>>
    /\ UNCHANGED handler_vars

\* time.sleep(wait_time); continue: the next attempt of range(3), or the next model
Sleep ==
    /\ pc = "sleep"
    /\ waits' = Append(waits, [idx |-> model_idx, seconds |-> wait_time])
    /\ IF attempt + 1 < 3
       THEN /\ attempt' = attempt + 1
            /\ pc' = "post"
            /\ UNCHANGED <<model_idx, raised>>
       ELSE NextModel(last_error)
    /\ UNCHANGED <<env_api_key, env_model, env_fallback, primary_model,
                   fallback_raw, models_to_try, last_error, wait_time, result,
                   calls, last_outcome>>
    /\ UNCHANGED handler_vars

Next == Start \/ PostReturns \/ PostHTTPError \/ PostException \/ Sleep

Spec == Init /\ [][Next]_vars

-----------------------------------------------------------------------------
(* _parse_model_list on its own, for every primary and every fallback string *)

ParseInit ==
    /\ primary_model \in StringsUpTo(MaxPrimaryLen)
    /\ fallback_raw \in {None} \cup StringsUpTo(MaxFallbackLen)
    /\ pc = "parse"
    /\ name = None
    /\ feeling = None
    /\ http_status = 0
    /\ affirmation = None
    /\ env_api_key = None
    /\ env_model = None
    /\ env_fallback = None
    /\ models_to_try = <<>>
    /\ model_idx = 0
    /\ attempt = 0
    /\ last_error = NoError
    /\ wait_time = 0
    /\ result = None
    /\ raised = NoError
    /\ calls = <<>>
    /\ waits = <<>>
    /\ last_outcome = NoOutcome

Parse ==
    /\ pc = "parse"
    /\ models_to_try' = _parse_model_list(primary_model, fallback_raw)
    /\ pc' = "parsed"
    /\ UNCHANGED <<env_api_key, env_model, env_fallback, primary_model,
                   fallback_raw, model_idx, attempt, last_error, wait_time, result,
                   raised, calls, waits, last_outcome>>
    /\ UNCHANGED handler_vars

ParseNext == Parse

ParseSpec == ParseInit /\ [][ParseNext]_vars

-----------------------------------------------------------------------------
(* generate_affirmation: the handler of POST /api/affirmation around the core *)

\* data.name and data.feeling: empty, whitespace only, a text, a text to be trimmed
RequestStrings == {<<>>, <<" ">>, <<"a">>, <<" ", "a", " ">>}

\* IsRejected with `if not name and not feeling`
IsRejectedWhenBothEmpty(n, f) == ~Truthy(strip(n)) /\ ~Truthy(strip(f))

\* name = data.name.strip(); feeling = ...; if not name or not feeling
IsRejected(n, f) == ~Truthy(strip(n)) \/ ~Truthy(strip(f))

\* The exception types of the model that are the builtin TimeoutError or derive from
\* it. requests.exceptions.Timeout derives from RequestException, an IOError: it is
\* not among them.
TimeoutErrorTypes == {"TimeoutError"}

\* the positions at which _generate_affirmation has ended
CoreEnded == {"returned", "no_key", "aborted", "exhausted"}

\* HandlerStatus of a handler that answers 200 whatever the core did
HandlerStatusAlwaysOk(ended, err) == 200

\* try: return {"affirmation": ...}; except TimeoutError: 504; except Exception: 502
HandlerStatus(ended, err) ==
    IF ended = "returned" THEN 200
    ELSE IF err.type \in TimeoutErrorTypes THEN 504
    ELSE 502

ApiInit ==
    /\ name \in RequestStrings
    /\ feeling \in RequestStrings
    /\ env_api_key \in {None, <<>>, <<"k">>}
    /\ env_model \in {None, <<"a">>}
    /\ env_fallback \in {None, <<>>}
    /\ http_status = 0
    /\ affirmation = None
    /\ pc = "request"
    /\ primary_model = None
    /\ fallback_raw = None
    /\ models_to_try = <<>>
    /\ model_idx = 0
    /\ attempt = 0
    /\ last_error = NoError
    /\ wait_time = 0
    /\ result = None
    /\ raised = NoError
    /\ calls = <<>>
    /\ waits = <<>>
    /\ last_outcome = NoOutcome

\* The handler up to the call of _generate_affirmation: 400, or the core is entered
Validate ==
    /\ pc = "request"
    /\ IF IsRejected(name, feeling)
       THEN pc' = "rejected" /\ http_status' = 400
       ELSE pc' = "start" /\ http_status' = http_status
    /\ UNCHANGED <<env_api_key, env_model, env_fallback, name, feeling, affirmation,
                   primary_model, fallback_raw, models_to_try, model_idx, attempt,
                   last_error, wait_time, result, raised, calls, waits,
                   last_outcome>>

\* The handler after _generate_affirmation has ended: the response
Respond ==
    /\ pc \in CoreEnded
    /\ http_status = 0
    /\ http_status' = HandlerStatus(pc, raised)
    /\ affirmation' = (IF pc = "returned" THEN result ELSE affirmation)
    /\ UNCHANGED <<env_api_key, env_model, env_fallback, name, feeling, pc,
                   primary_model, fallback_raw, models_to_try, model_idx, attempt,
                   last_error, wait_time, result, raised, calls, waits,
                   last_outcome>>

ApiNext ==
    \/ Validate
    \/ Start
    \/ PostReturns
    \/ PostHTTPError
    \/ PostException
    \/ Sleep
    \/ Respond

ApiSpec == ApiInit /\ [][ApiNext]_vars

-----------------------------------------------------------------------------
(* _generate_affirmation under the scheduling of a synchronous function: every   *)
(* requests.post returns or times out and every time.sleep returns               *)

\* candidate lists of one, two and three models, with and without a credential
FairInit ==
    /\ env_api_key \in {None, <<>>, <<"k">>}
    /\ env_model \in {None, <<"a">>}
    /\ env_fallback \in {None, <<>>, ExampleFallback}
    /\ name = None
    /\ feeling = None
    /\ http_status = 0
    /\ affirmation = None
    /\ pc = "start"
    /\ primary_model = None
    /\ fallback_raw = None
    /\ models_to_try = <<>>
    /\ model_idx = 0
    /\ attempt = 0
    /\ last_error = NoError
    /\ wait_time = 0
    /\ result = None
    /\ raised = NoError
    /\ calls = <<>>
    /\ waits = <<>>
    /\ last_outcome = NoOutcome

FairSpec == FairInit /\ [][Next]_vars /\ WF_vars(Next)

-----------------------------------------------------------------------------
(* Properties of _generate_affirmation *)

Last(seq) == seq[Len(seq)]

Called == calls # <<>>

\* the answer of the most recent call, read off the wire
AnsweredStatus(codes) ==
    Called /\ last_outcome.kind = "response" /\ last_outcome.status \in codes

\* a 2xx answer without an "error" whose choices[0].message.content has text in it
AnsweredWithText ==
    /\ AnsweredStatus(200..299)
    /\ last_outcome.body.json /\ last_outcome.body.is_dict
    /\ last_outcome.body.error \in {None, <<>>}
    /\ last_outcome.body.has_choices /\ last_outcome.body.choices # <<>>
    /\ last_outcome.body.choices[1].has_message
    /\ last_outcome.body.choices[1].content # None
    /\ \E i \in 1..Len(last_outcome.body.choices[1].content) :
          last_outcome.body.choices[1].content[i] # " "

\* a 2xx answer without an "error" and without any text: no choices, no message,
\* no content, or a content of whitespace only
AnsweredEmpty ==
    /\ AnsweredStatus(200..299)
    /\ last_outcome.body.json /\ last_outcome.body.is_dict
    /\ last_outcome.body.error \in {None, <<>>}
    /\ \/ ~last_outcome.body.has_choices
       \/ last_outcome.body.choices = <<>>
       \/ ~last_outcome.body.choices[1].has_message
       \/ last_outcome.body.choices[1].content = None
       \/ \A i \in 1..Len(last_outcome.body.choices[1].content) :
             last_outcome.body.choices[1].content[i] = " "

\* the backoff schedule: 2 s after attempt 0, 4 s after attempt 1, 8 s after attempt 2
ScheduledDelay(k) == IF k = 0 THEN 2 ELSE IF k = 1 THEN 4 ELSE 8

\* The run stands where a failed call with attempts left leaves it: the backoff of
\* that attempt is pending or just slept, and the same model is next
RetriesSameModel ==
    /\ Last(calls).attempt < 2
    /\ model_idx = Last(calls).idx
    /\ \/ /\ pc = "sleep"
          /\ attempt = Last(calls).attempt
          /\ wait_time = ScheduledDelay(attempt)
       \/ /\ pc = "post"
          /\ attempt = Last(calls).attempt + 1
          /\ waits # <<>>
          /\ Last(waits) = [idx |-> model_idx, seconds |-> ScheduledDelay(attempt - 1)]

\* The run stands where the last failed attempt on a model leaves it: no wait, the
\* next model at attempt 0, or the end of the run when there is none
MovesToNextModel ==
    /\ pc # "sleep"
    /\ IF Last(calls).idx < Len(models_to_try)
       THEN pc = "post" /\ model_idx = Last(calls).idx + 1 /\ attempt = 0
       ELSE pc = "exhausted"

\* Handled as a failed call is: retried after the backoff while attempts remain on
\* the model, the next model otherwise
HandledAsRetryable ==
    IF Last(calls).attempt < 2 THEN RetriesSameModel ELSE MovesToNextModel

\* C1: when a call answers 401 or 403 the run ends at once with that failure: no
\* backoff wait and no further call follows, on this model or on another
C1_AuthFailureAborts ==
    AnsweredStatus({401, 403}) =>
        /\ pc = "aborted"
        /\ raised.type = "HTTPError"
        /\ raised.status = last_outcome.status
        /\ raised.call = Len(calls)

\* C2: when a call for a model answers 404 or 410 no backoff wait occurs and that
\* model is not called again: the next call, if any, is attempt 0 of the next model
C2_NotFoundSkipsModel ==
    AnsweredStatus({404, 410}) =>
        /\ pc # "sleep"
        /\ pc = "post" => (model_idx = Last(calls).idx + 1 /\ attempt = 0)
        /\ \A i \in 1..Len(waits) :
              waits[i].idx = Last(calls).idx =>
                  waits[i].seconds # ScheduledDelay(Last(calls).attempt)


\* the text of the most recent answer, trimmed
AnsweredText == strip(last_outcome.body.choices[1].content)

\* C3: the first call that succeeds ends the run with its trimmed text: nothing is
\* enabled after it, so no backoff wait and no call follows; and when the primary
\* model succeeds on attempt 0 the run has made one call and no wait
C3_FirstSuccessEndsRun ==
    /\ AnsweredWithText =>
          /\ pc = "returned"
          /\ result = AnsweredText
          /\ Last(calls).idx = 1 /\ Last(calls).attempt = 0 =>
                (Len(calls) = 1 /\ waits = <<>>)
    /\ pc = "returned" => (AnsweredWithText /\ ~ENABLED Next)

C3_Witness ==
    /\ pc = "returned"
    /\ Len(models_to_try) >= 2
    /\ calls = <<[idx |-> 1, attempt |-> 0]>>
    /\ waits = <<>>
    /\ last_outcome.body.choices[1].content = <<" ", "a", "b", " ">>
    /\ result = <<"a", "b">>

\* C4: no empty or whitespace-only string is ever returned, and a 2xx answer whose
\* content is missing, empty or whitespace-only (or whose choices are missing or
\* empty) is handled as a failed call is: backoff and retry while attempts remain on
\* the model, the next model otherwise
C4_EmptyTextIsFailure ==
    /\ pc = "returned" =>
          /\ result # None
          /\ Len(result) > 0
          /\ result[1] # " " /\ result[Len(result)] # " "
    /\ AnsweredEmpty =>
          /\ pc # "returned"
          /\ result = None
          /\ HandledAsRetryable
          /\ last_error.call = Len(calls)

C4_Witness ==
    /\ AnsweredEmpty
    /\ last_outcome.body.has_choices
    /\ last_outcome.body.choices # <<>>
    /\ last_outcome.body.choices[1].content = <<" ">>
    /\ Last(calls).attempt = 0
    /\ pc = "sleep"
    /\ wait_time = 2

\* the waits of the run that belong to the model at index i, in order
WaitsOf(i) == SelectSeq(waits, LAMBDA w : w.idx = i)

\* a failure that is neither an authorization failure nor a model that is not hosted
RetryableFailure ==
    /\ Called
    /\ ~AnsweredWithText
    /\ ~AnsweredStatus({401, 403, 404, 410})

\* C5: when the third attempt on a model has failed with a retryable failure, that
\* model has had exactly two backoff waits, 2 s then 4 s; no wait follows the third
\* failure (8 s is never slept), and a model that was the only candidate leaves the
\* run ended with that failure
C5_TwoWaitsPerExhaustedModel ==
    /\ \A i \in 1..Len(waits) : waits[i].seconds \in {2, 4}
    /\ (RetryableFailure /\ Last(calls).attempt = 2) =>
          /\ pc # "sleep"
          /\ LET w == WaitsOf(Last(calls).idx)
             IN  Len(w) = 2 /\ w[1].seconds = 2 /\ w[2].seconds = 4
          /\ Len(models_to_try) = 1 =>
                /\ pc = "exhausted"
                /\ Len(calls) = 3
                /\ Len(waits) = 2
                /\ raised # NoError /\ raised # GenericError
                /\ raised.call = 3

C5_Witness ==
    /\ Len(models_to_try) = 1
    /\ pc = "exhausted"
    /\ last_outcome.kind = "timeout"
    /\ raised.type = "Timeout"
    /\ Len(calls) = 3
    /\ waits = <<[idx |-> 1, seconds |-> 2], [idx |-> 1, seconds |-> 4]>>


-----------------------------------------------------------------------------
(* Properties of _parse_model_list *)

\* the fallback entries as given: the comma-separated pieces, trimmed, the empty
\* ones left out; none when the fallback is absent
GivenEntries ==
    IF fallback_raw = None THEN <<>>
    ELSE LET pieces == split(fallback_raw)
             trimmed == [i \in 1..Len(pieces) |-> strip(pieces[i])]
         IN  SelectSeq(trimmed, LAMBDA e : e # <<>>)

\* the primary followed by the fallback entries, duplicates still in
GivenModels == <<primary_model>> \o GivenEntries

FirstIndex(seq, x) == CHOOSE i \in 1..Len(seq) : seq[i] = x /\ \A j \in 1..(i - 1) : seq[j] # x

\* C6: the list has no duplicates and keeps first-seen order: it holds exactly the
\* primary and the trimmed non-empty fallback entries, each once, ordered by first
\* occurrence
C6_NoDuplicatesFirstSeenOrder ==
    pc = "parsed" =>
        /\ \A i, j \in 1..Len(models_to_try) : i # j => models_to_try[i] # models_to_try[j]
        /\ {models_to_try[i] : i \in 1..Len(models_to_try)}
              = {GivenModels[i] : i \in 1..Len(GivenModels)}
        /\ \A i, j \in 1..Len(models_to_try) :
              i < j => FirstIndex(GivenModels, models_to_try[i])
                         < FirstIndex(GivenModels, models_to_try[j])

C6_Witness ==
    /\ pc = "parsed"
    /\ primary_model = <<"a">>
    /\ fallback_raw = <<"b", ",", "a", ",", "b">>
    /\ models_to_try = <<<<"a">>, <<"b">>>>

\* C9: the list is never empty and starts with the primary model; with the fallback
\* absent, empty or made of empty entries only it is [primary]
C9_PrimaryAlwaysFirst ==
    pc = "parsed" =>
        /\ Len(models_to_try) >= 1
        /\ models_to_try[1] = primary_model
        /\ (fallback_raw = None \/ \A i \in 1..Len(fallback_raw) : fallback_raw[i] \in {",", " "})
              => models_to_try = <<primary_model>>

C9_Witness ==
    /\ pc = "parsed"
    /\ fallback_raw = <<",", ",", " ", ",">>
    /\ primary_model = <<"a">>
    /\ models_to_try = <<<<"a">>>>

-----------------------------------------------------------------------------
(* Properties of the order and the number of the calls *)

\* the calls made to the model at index i
CallsOf(i) == SelectSeq(calls, LAMBDA c : c.idx = i)

\* a call is made in this step
Calls == calls' # calls

\* C7: the calls follow the candidate order and never go back: the first call is
\* the primary's attempt 0; a further call is the next attempt on the same model
\* after a failure, or attempt 0 of the next model after a 404/410 or a failed third
\* attempt; a success ends the run with no call to a later candidate
C7_CallsFollowCandidateOrder ==
    /\ [](\A i, j \in 1..Len(calls) : i < j => calls[i].idx <= calls[j].idx)
    /\ [](AnsweredWithText =>
            /\ pc = "returned"
            /\ result = AnsweredText
            /\ \A i \in 1..Len(calls) : calls[i].idx <= Last(calls).idx)
    /\ [][Calls =>
            IF ~Called
            THEN Last(calls') = [idx |-> 1, attempt |-> 0]
            ELSE \/ /\ Last(calls').idx = Last(calls).idx
                    /\ Last(calls').attempt = Last(calls).attempt + 1
                    /\ ~AnsweredWithText
                 \/ /\ Last(calls').idx = Last(calls).idx + 1
                    /\ Last(calls').attempt = 0
                    /\ \/ AnsweredStatus({404, 410})
                       \/ Last(calls).attempt = 2 /\ ~AnsweredWithText]_vars

C7_Witness ==
    /\ Len(models_to_try) = 3
    /\ pc = "returned"
    /\ calls = <<[idx |-> 1, attempt |-> 0], [idx |-> 1, attempt |-> 1]>>
    /\ waits = <<[idx |-> 1, seconds |-> 2]>>
    /\ last_error = [type |-> "HTTPError", status |-> 500, call |-> 1]
    /\ result = <<"a">>

\* C8: every candidate model is called at most 3 times, with the attempt indices
\* 0, 1 and 2 only, so a run makes at most 3 calls per candidate
C8_AtMostThreeCallsPerModel ==
    /\ \A i \in 1..Len(calls) :
          calls[i].attempt \in {0, 1, 2} /\ calls[i].idx \in 1..Len(models_to_try)
    /\ \A m \in 1..Len(models_to_try) : Len(CallsOf(m)) <= 3
    /\ Len(calls) <= 3 * Len(models_to_try)

C8_Witness ==
    /\ Len(models_to_try) >= 2
    /\ Len(calls) = 3 * Len(models_to_try)
    /\ pc = "returned"

\* the exception the try block raises on the most recent answer
AnsweredFailure ==
    IF last_outcome.kind = "timeout" THEN "Timeout"
    ELSE IF last_outcome.kind = "connection" THEN "ConnectionError"
    ELSE IF last_outcome.status >= 400 THEN "HTTPError"
    ELSE IF ~last_outcome.body.json THEN "JSONDecodeError"
    ELSE IF last_outcome.body.is_dict /\ last_outcome.body.error \notin {None, <<>>}
    THEN "RuntimeError"
    ELSE "ValueError"

\* C10: when the run ends with every candidate exhausted, it raises the failure of
\* the most recent call, the last attempt on the last candidate
C10_RaisesLastFailure ==
    pc = "exhausted" =>
        /\ Called
        /\ Last(calls).idx = Len(models_to_try)
        /\ ~AnsweredWithText
        /\ raised.call = Len(calls)
        /\ raised.type = AnsweredFailure
        /\ raised.status = last_outcome.status

C10_Witness ==
    /\ pc = "exhausted"
    /\ Len(models_to_try) = 2
    /\ Len(calls) = 6
    /\ last_outcome.kind = "response" /\ last_outcome.status = 500
    /\ raised = [type |-> "HTTPError", status |-> 500, call |-> 6]


-----------------------------------------------------------------------------
(* Termination of _generate_affirmation *)

\* the run has ended and what it left is of one kind: a text, or an exception
EndedWithOneOutcome ==
    /\ pc = "returned" => (result # None /\ raised = NoError)
    /\ pc \in {"aborted", "exhausted", "no_key"} => (result = None /\ raised # NoError)

\* C11 as stated: a run can only stop as Succeeded, Aborted or Exhausted
C11_EndsSucceededAbortedOrExhausted ==
    pc \in {"returned", "aborted", "exhausted"} \/ ENABLED Next

\* C11, amended: every run ends, in exactly one outcome, which is Succeeded, Aborted
\* or Exhausted when a credential is set and the missing-credential failure of line
\* 138 (no call, no wait) when it is not; once ended, no call and no wait follows
C11_EveryRunEnds ==
    /\ <>(pc \in CoreEnded)
    /\ [](pc \in CoreEnded \/ ENABLED Next)
    /\ [](pc \in CoreEnded => EndedWithOneOutcome)
    /\ [](pc \in CoreEnded =>
            IF Truthy(env_api_key)
            THEN pc \in {"returned", "aborted", "exhausted"}
            ELSE pc = "no_key" /\ calls = <<>> /\ waits = <<>>)
    /\ [][(pc \in CoreEnded) => UNCHANGED <<pc, calls, waits, result, raised>>]_vars

C11_Witness ==
    /\ pc = "exhausted"
    /\ Truthy(env_api_key)
    /\ Len(models_to_try) = 3
    /\ Len(calls) = 9
    /\ Len(waits) = 6


-----------------------------------------------------------------------------
(* Properties of the failure handling of _generate_affirmation *)

\* the most recent call failed in transport, or answered an HTTP error status that
\* is none of 401, 403, 404, 410
AnsweredRetryableError ==
    \/ Called /\ last_outcome.kind \in {"timeout", "connection"}
    \/ AnsweredStatus((400..599) \ {401, 403, 404, 410})

\* C15: such a failure is retried: on attempt 0 or 1 the scheduled backoff, then the
\* same model again; on attempt 2 the next model without a wait; the run is
\* never aborted by it and ends only when no candidate remains
C15_OtherFailuresAreRetried ==
    AnsweredRetryableError =>
        /\ HandledAsRetryable
        /\ pc # "aborted"
        /\ pc = "exhausted" => Last(calls) = [idx |-> Len(models_to_try), attempt |-> 2]
        /\ last_error.call = Len(calls)

C15_Witness ==
    /\ AnsweredStatus({503})
    /\ Len(models_to_try) >= 2
    /\ Last(calls) = [idx |-> 1, attempt |-> 2]
    /\ pc = "post" /\ model_idx = 2 /\ attempt = 0
    /\ waits = <<[idx |-> 1, seconds |-> 2], [idx |-> 1, seconds |-> 4]>>

\* a 2xx answer whose JSON object carries a non-empty "error"
AnsweredErrorField ==
    /\ AnsweredStatus(200..299)
    /\ last_outcome.body.json /\ last_outcome.body.is_dict
    /\ last_outcome.body.error \notin {None, <<>>}

\* C16: a 2xx answer with a non-empty "error" is a failure, whatever its choices
\* hold: nothing of it is returned, and it is retried as a failed call is
C16_ErrorFieldIsFailure ==
    AnsweredErrorField =>
        /\ pc # "returned"
        /\ result = None
        /\ last_error = [type |-> "RuntimeError", status |-> last_outcome.status,
                         call |-> Len(calls)]
        /\ HandledAsRetryable

C16_Witness ==
    /\ AnsweredErrorField
    /\ last_outcome.body.has_choices
    /\ last_outcome.body.choices # <<>>
    /\ last_outcome.body.choices[1].content = <<"a">>
    /\ Last(calls).attempt = 0
    /\ pc = "sleep"

\* C17: at the raise after the loops every candidate has been called and a failure
\* is recorded: the generic "failed after all models attempted" is never raised
C17_GenericFailureUnreachable ==
    pc = "exhausted" =>
        /\ \A m \in 1..Len(models_to_try) : Len(CallsOf(m)) >= 1
        /\ Len(models_to_try) >= 1
        /\ last_error # NoError
        /\ raised = last_error
        /\ raised # GenericError

C17_Witness ==
    /\ pc = "exhausted"
    /\ Len(models_to_try) = 3
    /\ \A m \in 1..3 : Len(CallsOf(m)) = 3
    /\ raised = [type |-> "ConnectionError", status |-> 0, call |-> 9]

-----------------------------------------------------------------------------
(* Properties of the handler of POST /api/affirmation *)

\* empty once trimmed
Blank(str) == \A i \in 1..Len(str) : str[i] = " "

\* _generate_affirmation has not been entered
CoreNotInvoked ==
    /\ pc \in {"request", "rejected"}
    /\ models_to_try = <<>>
    /\ calls = <<>>
    /\ waits = <<>>
    /\ result = None
    /\ raised = NoError

\* C13: a request whose name or feeling is empty after trimming is answered 400 and
\* the core is never invoked for it, so no call is made
C13_EmptyFieldsRejected ==
    /\ (Blank(name) \/ Blank(feeling)) =>
          /\ CoreNotInvoked
          /\ pc = "rejected" => http_status = 400
          /\ pc = "request" => http_status = 0
    /\ http_status = 400 => (Blank(name) \/ Blank(feeling))
    /\ pc = "rejected" => (Blank(name) \/ Blank(feeling))

C13_Witness ==
    /\ name = <<" ", "a", " ">>
    /\ feeling = <<" ">>
    /\ pc = "rejected"
    /\ http_status = 400
    /\ calls = <<>>

\* the handler has answered
Responded == http_status # 0

\* the core ended with the failure of a call on which the 60-second timeout expired
CoreTimedOut == pc = "exhausted" /\ Called /\ last_outcome.kind = "timeout"

\* the core ended with a failure
CoreFailed == pc \in {"no_key", "aborted", "exhausted"}

\* C14: for a valid request the answer is 200 with the text of the core, which is
\* not empty, when the core succeeds, 502 when it fails with a failure that is no
\* timeout, and never 200 when it fails
C14_ResponseFollowsCore ==
    (~Blank(name) /\ ~Blank(feeling) /\ Responded) =>
        /\ pc \in CoreEnded
        /\ pc = "returned" =>
              (http_status = 200 /\ affirmation = result /\ affirmation # None
               /\ Len(affirmation) > 0)
        /\ (CoreFailed /\ ~CoreTimedOut) => http_status = 502
        /\ CoreFailed => (http_status # 200 /\ affirmation = None)

C14_Witness ==
    /\ ~Blank(name) /\ ~Blank(feeling)
    /\ pc = "exhausted"
    /\ raised.type = "HTTPError" /\ raised.status = 500
    /\ http_status = 502

\* C18: when the core ends on a timeout of the last call the answer is 504, and 502
\* is the answer only to failures that are no timeouts
C18_TimeoutGives504 ==
    Responded =>
        /\ CoreTimedOut => http_status = 504
        /\ http_status = 502 => (CoreFailed /\ ~CoreTimedOut)

\* C19: without a credential the core fails before the candidate list is built: no
\* call, no wait, and the answer is 502
C19_MissingKeyGives502 ==
    (~Truthy(env_api_key) /\ pc \notin {"request", "rejected", "start"}) =>
        /\ pc = "no_key"
        /\ raised = MissingKeyError
        /\ primary_model = None /\ fallback_raw = None /\ models_to_try = <<>>
        /\ calls = <<>>
        /\ waits = <<>>
        /\ http_status \in {0, 502}
        /\ ENABLED Respond \/ http_status = 502

C19_Witness ==
    /\ env_api_key = <<>>
    /\ pc = "no_key"
    /\ calls = <<>>
    /\ http_status = 502

=============================================================================
